---- MODULE Spec2Model ----
(***************************************************************************)
(* State-of-charge extrapolation engine of the Uconnect integration        *)
(* (custom_components/uconnect/extrapolated_soc.py).                        *)
(*                                                                         *)
(* Fixed-point units (Python floats become integers on a grid):            *)
(*   SOC values            1/100 %        (50 %      = 5000)               *)
(*   charging rate         1/10 %/h       (20 %/h    = 200)                *)
(*   idle drain rate       1/10000 %/h    (0.006 %/h = 60)                 *)
(*   correction factor     1/1000         (1.0       = 1000)               *)
(*   instants, durations   minutes                                         *)
(* Every value computed from stored fields (the extrapolation, the         *)
(* comparisons of the guards, the rounding to one decimal) is computed     *)
(* exactly on rationals n/d; a value is rounded to its grid only where the *)
(* code stores a float result (IEEE rounding in the code).                 *)
(***************************************************************************)
EXTENDS Integers, Sequences, FiniteSets, TLC

\* Python's None, encoded outside the range of every SOC, rate and instant.
None == -1

\* ---- units ----
SocScale == 100
RateScale == 10
DrainScale == 10000
FactorScale == 1000
MinutesPerHour == 60

\* ---- constants of extrapolated_soc.py ----
\* STALE_THRESHOLD_HOURS = 2.0, in minutes
STALE_THRESHOLD_HOURS == 120
\* DEFAULT_CORRECTION_FACTOR = 1.0
DEFAULT_CORRECTION_FACTOR == 1000
\* MIN_CORRECTION_FACTOR = 0.5
MIN_CORRECTION_FACTOR == 500
\* MAX_CORRECTION_FACTOR = 1.5
MAX_CORRECTION_FACTOR == 1500
\* CORRECTION_EMA_ALPHA = 0.3, in tenths
CORRECTION_EMA_ALPHA == 3
\* MIN_TIME_FOR_LEARNING_HOURS = 0.05, in minutes
MIN_TIME_FOR_LEARNING_HOURS == 3
\* MIN_SOC_CHANGE_FOR_LEARNING = 0.5 %
MIN_SOC_CHANGE_FOR_LEARNING == 50
\* DEFAULT_IDLE_DRAIN_RATE = 0.006 %/h
DEFAULT_IDLE_DRAIN_RATE == 60
\* MIN_IDLE_DRAIN_RATE = 0.0
MIN_IDLE_DRAIN_RATE == 0
\* MAX_IDLE_DRAIN_RATE = 0.04 %/h
MAX_IDLE_DRAIN_RATE == 400
\* MIN_IDLE_TIME_FOR_LEARNING_HOURS = 1.0, in minutes
MIN_IDLE_TIME_FOR_LEARNING_HOURS == 60
\* IDLE_DRAIN_EMA_ALPHA = 0.2, in tenths
IDLE_DRAIN_EMA_ALPHA == 2
\* the cap min(rate, 300.0) of calculate_charging_rate and from_dict
MAX_CHARGING_RATE == 3000
\* 100.0 %: full battery, the default and the upper limit of target_soc
FULL_SOC == 10000
\* the 24.0 hours of _async_daily_deep_refresh, in minutes
DEEP_REFRESH_MIN_HOURS == 1440

\* ---- arithmetic helpers ----
Min2(a, b) == IF a <= b THEN a ELSE b
Max2(a, b) == IF a >= b THEN a ELSE b

\* The integer nearest to n/d (n >= 0, d > 0), ties to the even integer:
\* Python's round() on an exactly represented value.
RoundHalfEven(n, d) ==
    LET q == n \div d
        r == n % d
    IN  IF 2 * r < d THEN q
        ELSE IF 2 * r > d THEN q + 1
        ELSE IF q % 2 = 0 THEN q ELSE q + 1

\* round(x, 1) of the SOC x = n/d (in 1/100 %): the result, in 1/100 %, is a
\* multiple of 0.1 %.
Round1(n, d) == 10 * RoundHalfEven(n, 10 * d)

\* ---- RateModel ----

\* A charging_level is a string, modelled as the sequence of its characters
\* (an int level n is the sequence of the digits of str(n)); NoLevel encodes
\* the level None.
NoLevel == <<"None">>

\* str.upper() on the characters the model's levels use.
UpperChar(c) ==
    CASE c = "a" -> "A" [] c = "c" -> "C" [] c = "d" -> "D" [] c = "f" -> "F"
      [] c = "s" -> "S" [] c = "t" -> "T" [] c = "l" -> "L" [] c = "e" -> "E"
      [] c = "v" -> "V" [] OTHER -> c

Upper(str) == [i \in 1..Len(str) |-> UpperChar(str[i])]

\* Python's `sub in str`
Contains(str, sub) ==
    \E i \in 1..(Len(str) - Len(sub) + 1) : SubSeq(str, i, i + Len(sub) - 1) = sub

\* select_time_to_full taking, when both readings are valid and the level
\* decides nothing, the larger one
select_time_to_full_larger(charging_level, time_l2, time_l3) ==
    LET valid_l2 == time_l2 # None /\ time_l2 > 0
        valid_l3 == time_l3 # None /\ time_l3 > 0
        level_str == Upper(charging_level)
        isL3 == Contains(level_str, <<"3">>) \/ Contains(level_str, <<"D", "C">>)
                \/ Contains(level_str, <<"F", "A", "S", "T">>)
        isL2 == Contains(level_str, <<"2">>) \/ Contains(level_str, <<"A", "C">>)
        fallback == IF valid_l2 /\ valid_l3 THEN Max2(time_l2, time_l3)
                    ELSE IF valid_l3 THEN time_l3
                    ELSE IF valid_l2 THEN time_l2
                    ELSE None
    IN  IF charging_level # NoLevel /\ isL3 /\ valid_l3 THEN time_l3
        ELSE IF charging_level # NoLevel /\ ~isL3 /\ isL2 /\ valid_l2 THEN time_l2
        ELSE fallback

\* select_time_to_full(charging_level, time_l2, time_l3); times in 1/10 minute
select_time_to_full(charging_level, time_l2, time_l3) ==
    LET valid_l2 == time_l2 # None /\ time_l2 > 0
        valid_l3 == time_l3 # None /\ time_l3 > 0
        level_str == Upper(charging_level)
        isL3 == Contains(level_str, <<"3">>) \/ Contains(level_str, <<"D", "C">>)
                \/ Contains(level_str, <<"F", "A", "S", "T">>)
        isL2 == Contains(level_str, <<"2">>) \/ Contains(level_str, <<"A", "C">>)
        fallback == IF valid_l2 /\ valid_l3 THEN Min2(time_l2, time_l3)
                    ELSE IF valid_l3 THEN time_l3
                    ELSE IF valid_l2 THEN time_l2
                    ELSE None
    IN  IF charging_level # NoLevel /\ isL3 /\ valid_l3 THEN time_l3
        ELSE IF charging_level # NoLevel /\ ~isL3 /\ isL2 /\ valid_l2 THEN time_l2
        ELSE fallback

\* one minute, in the 1/10 minute of the time-to-full readings
TtfScale == 10

\* calculate_charging_rate with the cap at 300 %/h left out
calculate_charging_rate_uncapped(current_soc, time_to_full_minutes) ==
    IF time_to_full_minutes = None \/ time_to_full_minutes < TtfScale THEN 0
    ELSE LET remaining_soc == FULL_SOC - current_soc
         IN  IF remaining_soc <= 0 THEN 0
             ELSE RoundHalfEven(remaining_soc * MinutesPerHour * TtfScale * RateScale,
                                time_to_full_minutes * SocScale)

\* calculate_charging_rate accepting any positive time to full, without the
\* 1 minute minimum of line 212
calculate_charging_rate_any_time(current_soc, time_to_full_minutes) ==
    IF time_to_full_minutes = None \/ time_to_full_minutes <= 0 THEN 0
    ELSE LET remaining_soc == FULL_SOC - current_soc
         IN  IF remaining_soc <= 0 THEN 0
             ELSE Min2(RoundHalfEven(remaining_soc * MinutesPerHour * TtfScale * RateScale,
                                     time_to_full_minutes * SocScale),
                       MAX_CHARGING_RATE)

\* calculate_charging_rate(current_soc, time_to_full_minutes), in 1/10 %/h:
\* rate = remaining_soc / (minutes / 60), stored on the rate grid, capped.
calculate_charging_rate(current_soc, time_to_full_minutes) ==
    IF time_to_full_minutes = None \/ time_to_full_minutes < TtfScale THEN 0
    ELSE LET remaining_soc == FULL_SOC - current_soc
         IN  IF remaining_soc <= 0 THEN 0
             ELSE Min2(RoundHalfEven(remaining_soc * MinutesPerHour * TtfScale * RateScale,
                                     time_to_full_minutes * SocScale),
                       MAX_CHARGING_RATE)

\* ---- EstimationState ----

\* SocEstimationState(): the dataclass defaults
DefaultState ==
    [ last_actual_soc |-> None,
      last_actual_soc_time |-> None,
      is_charging |-> FALSE,
      is_idle |-> FALSE,
      charging_rate_pct_per_hour |-> 0,
      idle_drain_rate_pct_per_hour |-> DEFAULT_IDLE_DRAIN_RATE,
      learned_correction_factor |-> DEFAULT_CORRECTION_FACTOR,
      target_soc |-> FULL_SOC ]

\* A value of a persisted blob, tagged with its Python type.  A "num" is an
\* int or float on the grid of its field; a "str" that is a timestamp carries
\* the instant it parses to, any other "str" carries None (fromisoformat
\* raises ValueError); "missing" is a key the dict does not have.
Num(v) == [t |-> "num", v |-> v]
Bool(b) == [t |-> "bool", v |-> IF b THEN 1 ELSE 0]
Str(v) == [t |-> "str", v |-> v]
Null == [t |-> "null", v |-> 0]
Missing == [t |-> "missing", v |-> 0]

\* isinstance(x, (int, float)): bool is a subclass of int
IsNumber(x) == x.t \in {"num", "bool"}

\* the numeric value of a number on a grid of `scale` units per 1.0
\* (True is 1, False is 0)
NumberValue(x, scale) == IF x.t = "bool" THEN x.v * scale ELSE x.v

\* bool(x)
Truthy(x) ==
    CASE x.t = "num" -> x.v # 0
      [] x.t = "bool" -> x.v = 1
      [] x.t = "str" -> TRUE
      [] OTHER -> FALSE

\* dict.get(key, default)
Get(x, default) == IF x.t = "missing" THEN default ELSE x

\* to_dict storing the timestamp as a number of minutes, not as an ISO string
to_dict_time_as_number(s) ==
    [ isdict |-> TRUE,
      last_actual_soc |->
          IF s.last_actual_soc = None THEN Null ELSE Num(s.last_actual_soc),
      last_actual_soc_time |->
          IF s.last_actual_soc_time = None THEN Null ELSE Num(s.last_actual_soc_time),
      is_charging |-> Bool(s.is_charging),
      is_idle |-> Bool(s.is_idle),
      charging_rate_pct_per_hour |-> Num(s.charging_rate_pct_per_hour),
      idle_drain_rate_pct_per_hour |-> Num(s.idle_drain_rate_pct_per_hour),
      learned_correction_factor |-> Num(s.learned_correction_factor),
      learned_efficiency |-> Missing,
      target_soc |-> Num(s.target_soc) ]

\* SocEstimationState.to_dict
to_dict(s) ==
    [ isdict |-> TRUE,
      last_actual_soc |->
          IF s.last_actual_soc = None THEN Null ELSE Num(s.last_actual_soc),
      last_actual_soc_time |->
          IF s.last_actual_soc_time = None THEN Null ELSE Str(s.last_actual_soc_time),
      is_charging |-> Bool(s.is_charging),
      is_idle |-> Bool(s.is_idle),
      charging_rate_pct_per_hour |-> Num(s.charging_rate_pct_per_hour),
      idle_drain_rate_pct_per_hour |-> Num(s.idle_drain_rate_pct_per_hour),
      learned_correction_factor |-> Num(s.learned_correction_factor),
      learned_efficiency |-> Missing,
      target_soc |-> Num(s.target_soc) ]

\* SocEstimationState.from_dict
from_dict(data) ==
    IF ~data.isdict THEN DefaultState
    ELSE
    LET got_soc == Get(data.last_actual_soc, Null)
        last_soc == IF got_soc.t = "null" \/ ~IsNumber(got_soc) THEN None
                    ELSE Max2(0, Min2(FULL_SOC, NumberValue(got_soc, SocScale)))
        last_time == Get(data.last_actual_soc_time, Null)
        last_time_parsed == IF last_time.t = "str" THEN last_time.v ELSE None
        got_corr == Get(data.learned_correction_factor,
                        Get(data.learned_efficiency, Num(DEFAULT_CORRECTION_FACTOR)))
        correction == Max2(MIN_CORRECTION_FACTOR, Min2(MAX_CORRECTION_FACTOR,
                        IF IsNumber(got_corr) THEN NumberValue(got_corr, FactorScale)
                        ELSE DEFAULT_CORRECTION_FACTOR))
        got_drain == Get(data.idle_drain_rate_pct_per_hour, Num(DEFAULT_IDLE_DRAIN_RATE))
        drain_rate == Max2(MIN_IDLE_DRAIN_RATE, Min2(MAX_IDLE_DRAIN_RATE,
                        IF IsNumber(got_drain) THEN NumberValue(got_drain, DrainScale)
                        ELSE DEFAULT_IDLE_DRAIN_RATE))
        got_rate == Get(data.charging_rate_pct_per_hour, Num(0))
        charging_rate == Max2(0, Min2(MAX_CHARGING_RATE,
                        IF IsNumber(got_rate) THEN NumberValue(got_rate, RateScale) ELSE 0))
        got_target == Get(data.target_soc, Num(FULL_SOC))
        target_soc == IF ~IsNumber(got_target)
                         \/ NumberValue(got_target, SocScale) <= 0
                         \/ NumberValue(got_target, SocScale) > FULL_SOC
                      THEN FULL_SOC
                      ELSE NumberValue(got_target, SocScale)
    IN  [ last_actual_soc |-> last_soc,
          last_actual_soc_time |-> last_time_parsed,
          is_charging |-> Truthy(Get(data.is_charging, Bool(FALSE))),
          is_idle |-> Truthy(Get(data.is_idle, Bool(FALSE))),
          charging_rate_pct_per_hour |-> charging_rate,
          idle_drain_rate_pct_per_hour |-> drain_rate,
          learned_correction_factor |-> correction,
          target_soc |-> target_soc ]

\* ---- Extrapolator ----

\* _get_elapsed_hours(now): the time since the baseline, in minutes; None
\* without a baseline time (callers test the baseline time for that case, as
\* an elapsed time of minus one minute is a number, not None).
get_elapsed_hours(s, t) ==
    IF s.last_actual_soc_time = None THEN None ELSE t - s.last_actual_soc_time

\* _get_current_vehicle_soc preferring the stored baseline to the vehicle's
\* reading
get_stored_soc_first(s, veh) ==
    IF s.last_actual_soc # None THEN s.last_actual_soc ELSE veh.state_of_charge

\* _get_current_vehicle_soc()
get_current_vehicle_soc(s, veh) ==
    IF veh.state_of_charge # None THEN veh.state_of_charge ELSE s.last_actual_soc

\* 1/100 % per (unit of drain rate x minute), inverted: drain * minutes / this
\* is a SOC in 1/100 %
DrainDen == (DrainScale * MinutesPerHour) \div SocScale
\* rate * factor * minutes / this is a SOC in 1/100 %
ChargeDen == (RateScale * FactorScale * MinutesPerHour) \div SocScale

\* the idle-drain branch with the drain rate taken per minute, not per hour
idle_extrapolated_per_minute(s, elapsed) ==
    Round1(Max2(0, s.last_actual_soc * DrainDen
                   - s.idle_drain_rate_pct_per_hour * elapsed * MinutesPerHour), DrainDen)

\* lines 642-649 of native_value: the idle-drain branch
idle_extrapolated(s, elapsed) ==
    Round1(Max2(0, s.last_actual_soc * DrainDen
                   - s.idle_drain_rate_pct_per_hour * elapsed), DrainDen)

\* the charging branch without the clamps of lines 675-676
charging_extrapolated_unclamped(s, elapsed) ==
    Round1(s.last_actual_soc * ChargeDen
           + s.charging_rate_pct_per_hour * s.learned_correction_factor * elapsed,
           ChargeDen)

\* lines 668-678 of native_value: the charging branch
charging_extrapolated(s, elapsed) ==
    LET extrapolated == s.last_actual_soc * ChargeDen
                        + s.charging_rate_pct_per_hour * s.learned_correction_factor * elapsed
        capped == Min2(extrapolated, s.target_soc * ChargeDen)
    IN  Round1(Max2(0, Min2(FULL_SOC * ChargeDen, capped)), ChargeDen)

\* native_value without the staleness test of lines 651-658
native_value_without_staleness(s, veh, t) ==
    LET current_vehicle_soc == get_current_vehicle_soc(s, veh)
        elapsed_hours == get_elapsed_hours(s, t)
        base_soc == s.last_actual_soc
    IN  IF current_vehicle_soc = None THEN None
        ELSE IF s.last_actual_soc_time = None \/ elapsed_hours < 0 THEN current_vehicle_soc
        ELSE IF base_soc = None THEN current_vehicle_soc
        ELSE IF s.is_idle /\ s.idle_drain_rate_pct_per_hour > 0
             THEN idle_extrapolated(s, elapsed_hours)
        ELSE IF ~s.is_charging \/ s.charging_rate_pct_per_hour <= 0 THEN Round1(base_soc, 1)
        ELSE IF base_soc >= s.target_soc THEN Round1(base_soc, 1)
        ELSE charging_extrapolated(s, elapsed_hours)

\* native_value at the instant t, in 1/100 %; None when there is no value
native_value(s, veh, t) ==
    LET current_vehicle_soc == get_current_vehicle_soc(s, veh)
        elapsed_hours == get_elapsed_hours(s, t)
        base_soc == s.last_actual_soc
    IN  IF current_vehicle_soc = None THEN None
        ELSE IF s.last_actual_soc_time = None \/ elapsed_hours < 0 THEN current_vehicle_soc
        ELSE IF base_soc = None THEN current_vehicle_soc
        ELSE IF s.is_idle /\ s.idle_drain_rate_pct_per_hour > 0
             THEN idle_extrapolated(s, elapsed_hours)
        ELSE IF elapsed_hours > STALE_THRESHOLD_HOURS THEN Round1(base_soc, 1)
        ELSE IF ~s.is_charging \/ s.charging_rate_pct_per_hour <= 0 THEN Round1(base_soc, 1)
        ELSE IF base_soc >= s.target_soc THEN Round1(base_soc, 1)
        ELSE charging_extrapolated(s, elapsed_hours)

\* the property `available`
available(s) == s.last_actual_soc # None

\* ---- Learner ----

\* a variant of _learn_correction_factor without the minimum time of line 515
learn_correction_factor_any_time(s, current_soc, t, was_charging) ==
    LET elapsed_hours == get_elapsed_hours(s, t)
        actual_change == current_soc - s.last_actual_soc
        expected_n == s.charging_rate_pct_per_hour * elapsed_hours
        expected_d == RateScale * MinutesPerHour
        observed_correction ==
            Max2(MIN_CORRECTION_FACTOR, Min2(MAX_CORRECTION_FACTOR,
                RoundHalfEven(actual_change * ((expected_d * FactorScale) \div SocScale),
                              expected_n)))
    IN  IF s.last_actual_soc = None \/ ~was_charging \/ s.charging_rate_pct_per_hour <= 0
        THEN s
        ELSE IF s.last_actual_soc_time = None THEN s
        ELSE IF actual_change < MIN_SOC_CHANGE_FOR_LEARNING THEN s
        ELSE IF expected_n * SocScale < MIN_SOC_CHANGE_FOR_LEARNING * expected_d
                \/ expected_n = 0 THEN s
        ELSE [s EXCEPT !.learned_correction_factor =
                RoundHalfEven(CORRECTION_EMA_ALPHA * observed_correction
                              + (10 - CORRECTION_EMA_ALPHA) * s.learned_correction_factor,
                              10)]

\* _learn_correction_factor(current_soc, now, was_charging): the state after it
learn_correction_factor(s, current_soc, t, was_charging) ==
    LET elapsed_hours == get_elapsed_hours(s, t)
        actual_change == current_soc - s.last_actual_soc
        \* expected_change = rate * elapsed_hours, as expected_n / expected_d %
        expected_n == s.charging_rate_pct_per_hour * elapsed_hours
        expected_d == RateScale * MinutesPerHour
        \* observed = actual_change / expected_change, on the factor grid
        observed_correction ==
            Max2(MIN_CORRECTION_FACTOR, Min2(MAX_CORRECTION_FACTOR,
                RoundHalfEven(actual_change * ((expected_d * FactorScale) \div SocScale),
                              expected_n)))
    IN  IF s.last_actual_soc = None \/ ~was_charging \/ s.charging_rate_pct_per_hour <= 0
        THEN s
        ELSE IF s.last_actual_soc_time = None
                \/ elapsed_hours < MIN_TIME_FOR_LEARNING_HOURS THEN s
        ELSE IF actual_change < MIN_SOC_CHANGE_FOR_LEARNING THEN s
        ELSE IF expected_n * SocScale < MIN_SOC_CHANGE_FOR_LEARNING * expected_d
                \/ expected_n = 0 THEN s
        ELSE [s EXCEPT !.learned_correction_factor =
                RoundHalfEven(CORRECTION_EMA_ALPHA * observed_correction
                              + (10 - CORRECTION_EMA_ALPHA) * s.learned_correction_factor,
                              10)]

\* a variant of _learn_drain_rate that learns from a change of either sign
learn_drain_rate_from_any_change(s, current_soc, t, was_idle) ==
    LET elapsed_hours == get_elapsed_hours(s, t)
        actual_change == IF s.last_actual_soc >= current_soc
                         THEN s.last_actual_soc - current_soc
                         ELSE current_soc - s.last_actual_soc
        observed_n == actual_change * DrainDen
        clamped_n == Max2(MIN_IDLE_DRAIN_RATE * elapsed_hours,
                          Min2(MAX_IDLE_DRAIN_RATE * elapsed_hours, observed_n))
    IN  IF s.last_actual_soc = None \/ ~was_idle THEN s
        ELSE IF s.last_actual_soc_time = None
                \/ elapsed_hours < MIN_IDLE_TIME_FOR_LEARNING_HOURS THEN s
        ELSE IF actual_change < MIN_SOC_CHANGE_FOR_LEARNING THEN s
        ELSE [s EXCEPT !.idle_drain_rate_pct_per_hour =
                RoundHalfEven(IDLE_DRAIN_EMA_ALPHA * clamped_n
                              + (10 - IDLE_DRAIN_EMA_ALPHA) * s.idle_drain_rate_pct_per_hour
                                * elapsed_hours,
                              10 * elapsed_hours)]

\* _learn_drain_rate(current_soc, now, was_idle): the state after it
learn_drain_rate(s, current_soc, t, was_idle) ==
    LET elapsed_hours == get_elapsed_hours(s, t)
        actual_change == s.last_actual_soc - current_soc
        \* observed_drain_rate = actual_change / elapsed_hours, as observed_n /
        \* elapsed_hours on the drain grid, clamped
        observed_n == actual_change * DrainDen
        clamped_n == Max2(MIN_IDLE_DRAIN_RATE * elapsed_hours,
                          Min2(MAX_IDLE_DRAIN_RATE * elapsed_hours, observed_n))
    IN  IF s.last_actual_soc = None \/ ~was_idle THEN s
        ELSE IF s.last_actual_soc_time = None
                \/ elapsed_hours < MIN_IDLE_TIME_FOR_LEARNING_HOURS THEN s
        ELSE IF actual_change < MIN_SOC_CHANGE_FOR_LEARNING THEN s
        ELSE [s EXCEPT !.idle_drain_rate_pct_per_hour =
                RoundHalfEven(IDLE_DRAIN_EMA_ALPHA * clamped_n
                              + (10 - IDLE_DRAIN_EMA_ALPHA) * s.idle_drain_rate_pct_per_hour
                                * elapsed_hours,
                              10 * elapsed_hours)]

\* ---- SampleIngestor ----

\* the guard of lines 394-399 with a noise floor: a drop of less than one
\* percentage point passes it
soc_drop_with_noise_floor(s, soc_changed, current_soc) ==
    /\ soc_changed
    /\ s.is_charging
    /\ s.last_actual_soc # None
    /\ current_soc <= s.last_actual_soc - SocScale

\* lines 394-399 of _update_from_vehicle: the SOC dropped while the stored
\* mode is charging
soc_drop_while_charging(s, soc_changed, current_soc) ==
    /\ soc_changed
    /\ s.is_charging
    /\ s.last_actual_soc # None
    /\ current_soc < s.last_actual_soc

\* a variant of line 413 that accepts only below the extrapolation
idle_sample_accepted_strictly_below(current_extrapolated, current_soc) ==
    current_extrapolated # None /\ current_soc < current_extrapolated

\* a variant of line 413 that accepts an idle-to-idle sample wherever it
\* lies, that is, lines 410-428 without their guard
idle_sample_accepted_unguarded(current_extrapolated, current_soc) ==
    current_extrapolated # None

\* line 413: an idle-to-idle sample is accepted at or below the extrapolation
idle_sample_accepted(current_extrapolated, current_soc) ==
    current_extrapolated # None /\ current_soc <= current_extrapolated

\* a variant of lines 429-435 that takes a sample as stale only below the
\* baseline
stale_charging_sample_below_baseline(s, soc_changed, is_charging, current_extrapolated, current_soc) ==
    /\ soc_changed
    /\ s.is_charging
    /\ is_charging
    /\ current_extrapolated # None
    /\ current_soc < s.last_actual_soc

\* lines 429-435: a charging-to-charging sample below the extrapolation
stale_charging_sample(s, soc_changed, is_charging, current_extrapolated, current_soc) ==
    /\ soc_changed
    /\ s.is_charging
    /\ is_charging
    /\ current_extrapolated # None
    /\ current_soc < current_extrapolated

\* lines 376-445: the acceptance decision for a sample that carries an SOC,
\* as the pair of locals [soc_changed, skip_stale_charging_data]
accept_decision(s, veh, t) ==
    LET current_soc == veh.state_of_charge
        is_charging == veh.charging
        soc_changed0 == s.last_actual_soc = None \/ current_soc # s.last_actual_soc
        current_extrapolated == native_value(s, veh, t)
        is_idle == ~is_charging /\ ~veh.ignition_on
        dropped == soc_drop_while_charging(s, soc_changed0, current_soc)
        soc_changed1 == soc_changed0 /\ ~dropped
    IN  IF soc_changed1 /\ s.is_idle /\ is_idle
        THEN [ soc_changed |-> idle_sample_accepted(current_extrapolated, current_soc),
               skip_stale_charging_data |-> dropped ]
        ELSE IF stale_charging_sample(s, soc_changed1, is_charging,
                                      current_extrapolated, current_soc)
        THEN [ soc_changed |-> FALSE, skip_stale_charging_data |-> TRUE ]
        ELSE [ soc_changed |-> soc_changed1, skip_stale_charging_data |-> dropped ]

\* lines 451-455 without the test for an absent SOC
refresh_mode_without_soc(s, veh, skip_stale_charging_data) ==
    IF ~skip_stale_charging_data
    THEN [s EXCEPT !.is_charging = veh.charging,
                   !.is_idle = ~veh.charging /\ ~veh.ignition_on]
    ELSE s

\* lines 451-455: the mode flags are refreshed from the sample
refresh_mode(s, veh, skip_stale_charging_data) ==
    IF veh.state_of_charge # None /\ ~skip_stale_charging_data
    THEN [s EXCEPT !.is_charging = veh.charging,
                   !.is_idle = ~veh.charging /\ ~veh.ignition_on]
    ELSE s

\* a variant of the learning step that reads the mode flags after their
\* refresh instead of the captured was_charging and was_idle
learn_from_sample_refreshed_mode(s, veh, t, skip_stale_charging_data, was_charging, was_idle) ==
    IF /\ veh.state_of_charge # None
       /\ s.last_actual_soc # None
       /\ ~skip_stale_charging_data
       /\ veh.state_of_charge # s.last_actual_soc
    THEN learn_drain_rate(
             learn_correction_factor(s, veh.state_of_charge, t, s.is_charging),
             veh.state_of_charge, t, s.is_idle)
    ELSE s

\* lines 457-469: the learning step
learn_from_sample(s, veh, t, skip_stale_charging_data, was_charging, was_idle) ==
    IF /\ veh.state_of_charge # None
       /\ s.last_actual_soc # None
       /\ ~skip_stale_charging_data
       /\ veh.state_of_charge # s.last_actual_soc
    THEN learn_drain_rate(
             learn_correction_factor(s, veh.state_of_charge, t, was_charging),
             veh.state_of_charge, t, was_idle)
    ELSE s

\* lines 471-474 without the assignment of last_actual_soc_time
update_baseline_soc_only(s, veh, t, soc_changed) ==
    IF veh.state_of_charge # None /\ soc_changed
    THEN [s EXCEPT !.last_actual_soc = veh.state_of_charge]
    ELSE s

\* lines 471-474: the baseline is overwritten
update_baseline(s, veh, t, soc_changed) ==
    IF veh.state_of_charge # None /\ soc_changed
    THEN [s EXCEPT !.last_actual_soc = veh.state_of_charge,
                   !.last_actual_soc_time = t]
    ELSE s

\* lines 476-486: the charging rate is recomputed
update_charging_rate(s, veh, time_to_full, skip_stale_charging_data) ==
    IF veh.state_of_charge # None /\ ~skip_stale_charging_data
    THEN [s EXCEPT !.charging_rate_pct_per_hour =
             IF veh.charging /\ time_to_full # None
             THEN calculate_charging_rate(veh.state_of_charge, time_to_full)
             ELSE 0]
    ELSE s

\* _update_from_vehicle(): the state after ingesting the vehicle's current
\* readings at the instant t
update_from_vehicle(s, veh, t) ==
    LET time_to_full == select_time_to_full(veh.charging_level,
                            veh.time_to_fully_charge_l2, veh.time_to_fully_charge_l3)
        decision == IF veh.state_of_charge # None
                    THEN accept_decision(s, veh, t)
                    ELSE [ soc_changed |-> FALSE, skip_stale_charging_data |-> FALSE ]
        skip == decision.skip_stale_charging_data
        was_charging == s.is_charging
        was_idle == s.is_idle
        s1 == refresh_mode(s, veh, skip)
        s2 == learn_from_sample(s1, veh, t, skip, was_charging, was_idle)
        s3 == update_baseline(s2, veh, t, decision.soc_changed)
        s4 == update_charging_rate(s3, veh, time_to_full, skip)
    IN  [s4 EXCEPT !.target_soc = FULL_SOC]

\* ---- inputs ----

\* how many instants of the schedule the clock can show
NumInstants == 5

\* how many times the vehicle snapshot changes
MaxRefreshes == 1

\* The instants datetime.now() can return, in minutes.  Their gaps fall on
\* both sides of the 3 minutes and the 1 hour of the learners (0 and 10, 10
\* and 60), of the 2 hours of the staleness check (10 to 130 is exactly 2 h)
\* and of the 24 hours of the deep refresh (10 to 1450 is exactly 24 h);
\* further instants fall into the first minutes, a minute apart.
Instant(i) ==
    CASE i = 1 -> 0 [] i = 2 -> 10 [] i = 3 -> 70 [] i = 4 -> 130 [] i = 5 -> 1450
      [] OTHER -> i - 4

Instants == { Instant(i) : i \in 1..NumInstants }

\* the SOC readings a vehicle reports, in 1/100 %
SocReadings == { 4500, 4940, 5000 }

LEVEL_2 == <<"l", "e", "v", "e", "l", "_", "2">>
DC_FAST == <<"D", "C", "_", "F", "A", "S", "T">>

\* what a vehicle reports besides its SOC: charging, ignition_on,
\* charging_level and the two times to full (in 1/10 minute)
Report(c, ign, level, l2, l3) ==
    [ charging |-> c, ignition_on |-> ign, charging_level |-> level,
      time_l2 |-> l2, time_l3 |-> l3 ]

VehicleReports ==
    { Report(FALSE, FALSE, NoLevel, None, None),    \* parked
      Report(FALSE, TRUE, NoLevel, None, None),     \* driving
      Report(TRUE, FALSE, LEVEL_2, 1500, None),     \* AC charging, 150 min to full
      Report(TRUE, FALSE, DC_FAST, 1500, 100),      \* DC charging, 10 min to full
      Report(TRUE, TRUE, NoLevel, None, 0),         \* charging, no time to full
      Report(FALSE, FALSE, LEVEL_2, 1500, None) }   \* parked, a time to full left over

\* the snapshots of py_uconnect's Vehicle the engine reads
Vehicles ==
    { [ state_of_charge |-> soc, charging |-> r.charging, ignition_on |-> r.ignition_on,
        charging_level |-> r.charging_level,
        time_to_fully_charge_l2 |-> r.time_l2,
        time_to_fully_charge_l3 |-> r.time_l3 ] :
      soc \in SocReadings \cup {None}, r \in VehicleReports }

\* a well-formed persisted blob
Blob(soc, time, charging, idle, rate, drain, factor, target) ==
    [ isdict |-> TRUE,
      last_actual_soc |-> soc, last_actual_soc_time |-> time,
      is_charging |-> charging, is_idle |-> idle,
      charging_rate_pct_per_hour |-> rate,
      idle_drain_rate_pct_per_hour |-> drain,
      learned_correction_factor |-> factor,
      learned_efficiency |-> Missing,
      target_soc |-> target ]

NotADict == [ isdict |-> FALSE ]

\* the estimation_state attributes async_get_last_state can hand back
RestoreBlobs ==
    { NotADict,
      \* parked at 50.06 % with the largest drain rate learned
      Blob(Num(5006), Str(0), Bool(FALSE), Bool(TRUE), Num(0), Num(400), Num(1000), Num(10000)),
      \* charging at 50.04 %, 20 %/h, with a charge limit of 80 %
      Blob(Num(5004), Str(0), Bool(TRUE), Bool(FALSE), Num(200), Num(60), Num(1000), Num(8000)),
      \* corrupted: both mode flags set, numbers out of range, a baseline
      \* without a parsable time
      Blob(Num(5000), Str(None), Num(1), Str(None), Num(9000), Num(-5), Num(2000), Num(0)),
      \* written in the future of the clock, no baseline SOC
      Blob(Null, Str(70), Bool(FALSE), Bool(TRUE), Null, Missing, Missing, Missing) }

\* ---- the entity ----

VARIABLES
    state,              \* self._state: the SocEstimationState
    vehicle,            \* self.vehicle: the coordinator client's snapshot
    now,                \* datetime.now(timezone.utc), in minutes
    phase,              \* "constructed", "added" (to hass) or "removed"
    unsub_timer,        \* self._unsub_timer is not None
    unsub_deep_refresh, \* self._unsub_deep_refresh is not None
    refreshes,          \* how many times the vehicle snapshot changed
    lastOp,             \* the operation of the entity that ran last, "env"
                        \* once the vehicle snapshot or the clock changed after it
    pre,                \* self._state as that operation found it
    restored,           \* async_added_to_hass loaded a persisted state
    soc_ingested,       \* a sample carrying an SOC has been ingested
    call,               \* a call of a module-level function: its name and arguments
    ret,                \* what that call returned, once it has returned
    deep_refresh,       \* the daily timer and its handler _async_daily_deep_refresh:
                        \* where the handler stands, what command_verify returned,
                        \* the commands issued, the warnings logged, whether an
                        \* exception left the handler, the instant the timer last fired
    unsub_calls         \* how often each unsubscribe callable has been called

vars == <<state, vehicle, now, phase, unsub_timer, unsub_deep_refresh, refreshes,
          lastOp, pre, restored, soc_ingested, call, ret, deep_refresh, unsub_calls>>

\* the variables of the entity
entityVars == <<state, vehicle, now, phase, unsub_timer, unsub_deep_refresh, refreshes,
                lastOp, pre, restored, soc_ingested>>

\* no function is being called on its own
NoCall == [op |-> "none"]
NoReturn == [done |-> FALSE, v |-> None]

\* the daily timer has not fired and no handler is running; baseline_time
\* records the last_actual_soc_time that the refresh of a command wrote
NoDeepRefresh ==
    [ pc |-> "idle", r |-> FALSE, commands |-> 0, warnings |-> 0,
      raised |-> FALSE, fired_at |-> None, baseline_time |-> None ]

\* no unsubscribe callable has been called
NoUnsubCalls == [ timer |-> 0, deep_refresh |-> 0 ]

\* the operations that run _update_from_vehicle
IngestOps == {"added", "restored", "ingest"}

\* __init__: sensor.py creates the entity only for a vehicle reporting an SOC
Init ==
    /\ state = DefaultState
    /\ vehicle \in { v \in Vehicles : v.state_of_charge # None }
    /\ now = Instant(1)
    /\ phase = "constructed"
    /\ unsub_timer = FALSE
    /\ unsub_deep_refresh = FALSE
    /\ refreshes = 0
    /\ lastOp = "init"
    /\ pre = DefaultState
    /\ restored = FALSE
    /\ soc_ingested = FALSE
    /\ call = NoCall
    /\ ret = NoReturn
    /\ deep_refresh = NoDeepRefresh
    /\ unsub_calls = NoUnsubCalls

\* async_added_to_hass with no last state, or one without estimation_state
AddedToHassFresh ==
    /\ phase = "constructed"
    /\ state' = update_from_vehicle(state, vehicle, now)
    /\ pre' = state
    /\ lastOp' = "added"
    /\ phase' = "added"
    /\ unsub_timer' = TRUE
    /\ unsub_deep_refresh' = TRUE
    /\ soc_ingested' = (vehicle.state_of_charge # None)
    /\ UNCHANGED <<vehicle, now, refreshes, restored>>
    /\ UNCHANGED <<call, ret, deep_refresh, unsub_calls>>

\* async_added_to_hass restoring a persisted estimation_state
AddedToHassRestore ==
    /\ phase = "constructed"
    /\ \E blob \in RestoreBlobs :
          /\ pre' = from_dict(blob)
          /\ state' = update_from_vehicle(from_dict(blob), vehicle, now)
    /\ lastOp' = "restored"
    /\ phase' = "added"
    /\ unsub_timer' = TRUE
    /\ unsub_deep_refresh' = TRUE
    /\ restored' = TRUE
    /\ soc_ingested' = (vehicle.state_of_charge # None)
    /\ UNCHANGED <<vehicle, now, refreshes>>
    /\ UNCHANGED <<call, ret, deep_refresh, unsub_calls>>

\* client.refresh in the executor: the vehicle snapshot changes
ClientRefresh ==
    /\ phase # "removed"
    /\ refreshes < MaxRefreshes
    /\ refreshes' = refreshes + 1
    /\ vehicle' \in Vehicles \ {vehicle}
    /\ pre' = state
    /\ lastOp' = "env"
    /\ UNCHANGED <<state, now, phase, unsub_timer, unsub_deep_refresh, restored, soc_ingested>>
    /\ UNCHANGED <<call, ret, deep_refresh, unsub_calls>>

\* _handle_coordinator_update: the listener registered while the entity is added
HandleCoordinatorUpdate ==
    /\ phase = "added"
    /\ state' = update_from_vehicle(state, vehicle, now)
    /\ pre' = state
    /\ lastOp' = "ingest"
    /\ soc_ingested' = (soc_ingested \/ vehicle.state_of_charge # None)
    /\ UNCHANGED <<vehicle, now, phase, unsub_timer, unsub_deep_refresh, refreshes, restored>>
    /\ UNCHANGED <<call, ret, deep_refresh, unsub_calls>>

\* lines 318-321: the tick publishes only while an extrapolation is running
tick_publishes(s) ==
    \/ s.is_charging /\ s.charging_rate_pct_per_hour > 0
    \/ s.is_idle /\ s.idle_drain_rate_pct_per_hour > 0

\* a variant of the tick that stores the instant of its estimate
update_extrapolation_rebasing(s, veh, t) ==
    IF tick_publishes(s) THEN [s EXCEPT !.last_actual_soc_time = t] ELSE s

\* the estimation state after _async_update_extrapolation: async_write_ha_state
\* reads available, native_value and extra_state_attributes, which assign
\* no field of self._state
update_extrapolation(s, veh, t) == s

\* _async_update_extrapolation: the 1-minute timer
UpdateExtrapolation ==
    /\ unsub_timer
    /\ state' = update_extrapolation(state, vehicle, now)
    /\ pre' = state
    /\ lastOp' = "tick"
    /\ UNCHANGED <<vehicle, now, phase, unsub_timer, unsub_deep_refresh, refreshes,
                   restored, soc_ingested>>
    /\ UNCHANGED <<call, ret, deep_refresh, unsub_calls>>

\* the wall clock moves on
ClockAdvance ==
    /\ phase # "removed"
    /\ now' \in { t \in Instants : t > now }
    /\ pre' = state
    /\ lastOp' = "env"
    /\ UNCHANGED <<state, vehicle, phase, unsub_timer, unsub_deep_refresh, refreshes,
                   restored, soc_ingested>>
    /\ UNCHANGED <<call, ret, deep_refresh, unsub_calls>>

\* the wall clock is set back (NTP adjustment)
ClockStepBack ==
    /\ phase # "removed"
    /\ now' \in { t \in Instants : t < now }
    /\ pre' = state
    /\ lastOp' = "env"
    /\ UNCHANGED <<state, vehicle, phase, unsub_timer, unsub_deep_refresh, refreshes,
                   restored, soc_ingested>>
    /\ UNCHANGED <<call, ret, deep_refresh, unsub_calls>>

\* a variant of the teardown that cancels the 1-minute timer only
will_remove_from_hass_tick_only ==
    /\ unsub_calls' =
          [unsub_calls EXCEPT !.timer = @ + (IF unsub_timer THEN 1 ELSE 0)]
    /\ unsub_timer' = FALSE
    /\ phase' = "removed"
    /\ pre' = state
    /\ lastOp' = "remove"
    /\ UNCHANGED <<state, vehicle, now, refreshes, restored, soc_ingested>>
    /\ UNCHANGED <<call, ret, deep_refresh, unsub_deep_refresh>>

\* async_will_remove_from_hass: each handle that is set is called and cleared
will_remove_from_hass ==
    /\ unsub_calls' =
          [ timer |-> unsub_calls.timer + (IF unsub_timer THEN 1 ELSE 0),
            deep_refresh |-> unsub_calls.deep_refresh
                             + (IF unsub_deep_refresh THEN 1 ELSE 0) ]
    /\ unsub_timer' = FALSE
    /\ unsub_deep_refresh' = FALSE
    /\ phase' = "removed"
    /\ pre' = state
    /\ lastOp' = "remove"
    /\ UNCHANGED <<state, vehicle, now, refreshes, restored, soc_ingested>>
    /\ UNCHANGED <<call, ret, deep_refresh>>

\* the entity is removed from hass
WillRemoveFromHass ==
    /\ phase = "added"
    /\ will_remove_from_hass

Next ==
    \/ AddedToHassFresh
    \/ AddedToHassRestore
    \/ ClientRefresh
    \/ HandleCoordinatorUpdate
    \/ UpdateExtrapolation
    \/ ClockAdvance
    \/ ClockStepBack
    \/ WillRemoveFromHass

Spec == Init /\ [][Next]_vars

\* The clock never set back; the coordinator keeps polling (its
\* update_interval timer calls the listeners after every refresh) and time
\* passes.  Once the vehicle snapshot has changed MaxRefreshes times, every
\* further poll reports the same sample.
NextForward ==
    \/ AddedToHassFresh
    \/ AddedToHassRestore
    \/ ClientRefresh
    \/ HandleCoordinatorUpdate
    \/ UpdateExtrapolation
    \/ ClockAdvance
    \/ WillRemoveFromHass

SpecFrozenPoll ==
    /\ Init
    /\ [][NextForward]_vars
    /\ WF_vars(HandleCoordinatorUpdate)
    /\ WF_vars(ClockAdvance)

\* ---- the daily deep refresh ----

MinutesPerDay == 24 * MinutesPerHour

\* the time of the day of the daily timer, in minutes after instant 0: with
\* instant 0 at 02:00 it is 02:10, one of the times __init__ can draw
DeepRefreshMinute == 10

\* the time pattern of async_track_time_change (hour, minute, second=0): the
\* instant falls on the drawn time of the day
DailyFiring(t) == t % MinutesPerDay = DeepRefreshMinute

\* the instants matching the time pattern of async_track_time_change
FiringInstants == { t \in Instants : DailyFiring(t) }

\* a variant that also skips at exactly 24 hours
deep_refresh_due_strict(s, t) ==
    /\ s.last_actual_soc_time # None
    /\ t - s.last_actual_soc_time > DEEP_REFRESH_MIN_HOURS

\* lines 331-341 of _async_daily_deep_refresh: the command is due
deep_refresh_due(s, t) ==
    /\ s.last_actual_soc_time # None
    /\ ~(t - s.last_actual_soc_time < DEEP_REFRESH_MIN_HOURS)

\* what async_command ends with on a failure: the exception of the client
\* (an API or network error) or the HomeAssistantError of a falsy result
CommandErrors == { "Exception", "HomeAssistantError" }

\* a variant of the except clause that names HomeAssistantError only
except_home_assistant_error(err) == err = "HomeAssistantError"

\* line 348: except Exception
except_exception(err) == err \in { "Exception", "HomeAssistantError" }

\* lines 346-349: the try statement around the command ends with err; a
\* caught exception is logged as a warning, another one leaves the handler
command_failed(err) ==
    IF except_exception(err)
    THEN [deep_refresh EXCEPT !.pc = "idle", !.warnings = @ + 1]
    ELSE [deep_refresh EXCEPT !.pc = "idle", !.raised = TRUE]

\* _async_daily_deep_refresh up to its await: the timer fires once at each
\* matching instant; the handler returns at once or dispatches the command
DeepRefreshFire ==
    /\ unsub_deep_refresh
    /\ DailyFiring(now)
    /\ deep_refresh.fired_at # now
    /\ deep_refresh.pc = "idle"
    /\ deep_refresh' =
          IF deep_refresh_due(state, now)
          THEN [deep_refresh EXCEPT !.fired_at = now, !.pc = "command",
                                    !.commands = @ + 1]
          ELSE [deep_refresh EXCEPT !.fired_at = now]
    /\ pre' = state
    /\ lastOp' = "deep_fire"
    /\ UNCHANGED <<state, vehicle, now, phase, unsub_timer, unsub_deep_refresh,
                   refreshes, restored, soc_ingested, call, ret, unsub_calls>>

\* async_command: client.command_verify returns r in the executor and
\* async_refresh is awaited
CommandVerifyReturns ==
    /\ deep_refresh.pc = "command"
    /\ \E r \in BOOLEAN :
          deep_refresh' = [deep_refresh EXCEPT !.pc = "refresh", !.r = r]
    /\ pre' = state
    /\ lastOp' = "deep_command"
    /\ UNCHANGED <<state, vehicle, now, phase, unsub_timer, unsub_deep_refresh,
                   refreshes, restored, soc_ingested, call, ret, unsub_calls>>

\* async_command: client.command_verify raises, before any refresh; the
\* exception reaches the try statement of the handler
CommandVerifyRaises ==
    /\ deep_refresh.pc = "command"
    /\ \E err \in CommandErrors : deep_refresh' = command_failed(err)
    /\ pre' = state
    /\ lastOp' = "deep_failed"
    /\ UNCHANGED <<state, vehicle, now, phase, unsub_timer, unsub_deep_refresh,
                   refreshes, restored, soc_ingested, call, ret, unsub_calls>>

\* async_command: async_refresh returns.  The coordinator has refreshed the
\* snapshot (or kept the cached one) and called its listeners, among them
\* _handle_coordinator_update while the entity is added; then a falsy r is
\* raised as HomeAssistantError and reaches the try statement of the handler.
async_refresh_returns(snapshots) ==
    /\ deep_refresh.pc = "refresh"
    /\ \/ /\ refreshes < MaxRefreshes
          /\ refreshes' = refreshes + 1
          /\ vehicle' \in snapshots \ {vehicle}
       \/ UNCHANGED <<vehicle, refreshes>>
    /\ state' = IF phase = "added"
                THEN update_from_vehicle(state, vehicle', now)
                ELSE state
    /\ soc_ingested' =
          (soc_ingested \/ (phase = "added" /\ vehicle'.state_of_charge # None))
    /\ deep_refresh' =
          LET done == IF deep_refresh.r
                      THEN [deep_refresh EXCEPT !.pc = "idle"]
                      ELSE command_failed("HomeAssistantError")
              written == \/ state'.last_actual_soc # state.last_actual_soc
                         \/ state'.last_actual_soc_time # state.last_actual_soc_time
          IN  IF written
              THEN [done EXCEPT !.baseline_time = state'.last_actual_soc_time]
              ELSE done
    /\ pre' = state
    /\ lastOp' = IF ~deep_refresh.r THEN "deep_failed"
                 ELSE IF phase = "added" THEN "ingest" ELSE "deep_done"
    /\ UNCHANGED <<now, phase, unsub_timer, unsub_deep_refresh, restored,
                   call, ret, unsub_calls>>

CommandRefreshReturns == async_refresh_returns(Vehicles)

\* async_will_remove_from_hass before the timers exist, or once more
WillRemoveFromHassUnarmed ==
    /\ phase # "added"
    /\ will_remove_from_hass

\* the entity with its daily timer; the clock is not set back
NextDaily ==
    \/ AddedToHassFresh
    \/ AddedToHassRestore
    \/ ClientRefresh
    \/ HandleCoordinatorUpdate
    \/ UpdateExtrapolation
    \/ ClockAdvance
    \/ WillRemoveFromHass
    \/ WillRemoveFromHassUnarmed
    \/ DeepRefreshFire
    \/ CommandVerifyReturns
    \/ CommandVerifyRaises
    \/ CommandRefreshReturns

SpecDaily == Init /\ [][NextDaily]_vars

\* ---- a parked vehicle over several days ----

\* the instants of a clock that runs over three days: the setup, the daily
\* timer's time of day on the day of the setup and on the next three days,
\* and ten minutes after the first of these three
DayInstants == { 0, DeepRefreshMinute,
                 MinutesPerDay + DeepRefreshMinute, MinutesPerDay + 2 * DeepRefreshMinute,
                 2 * MinutesPerDay + DeepRefreshMinute,
                 3 * MinutesPerDay + DeepRefreshMinute }

\* the snapshots of a parked vehicle: not charging, ignition off
ParkedVehicles == { v \in Vehicles : ~v.charging /\ ~v.ignition_on }

\* datetime.now() returns a later instant of the three days
ClockAdvanceDays ==
    /\ phase # "removed"
    /\ now' \in { t \in DayInstants : t > now }
    /\ pre' = state
    /\ lastOp' = "env"
    /\ UNCHANGED <<state, vehicle, phase, unsub_timer, unsub_deep_refresh, refreshes,
                   restored, soc_ingested>>
    /\ UNCHANGED <<call, ret, deep_refresh, unsub_calls>>

\* async_command's refresh for a parked vehicle: the snapshot it fetches is
\* one of a parked vehicle
CommandRefreshReturnsParked == async_refresh_returns(ParkedVehicles)

\* the vehicle is parked when the entity is constructed
InitParked == Init /\ vehicle \in ParkedVehicles

\* The entity of a parked vehicle: the polls of the coordinator return the
\* cached snapshot, only the refresh of a deep-refresh command fetches a new
\* one.
NextParked ==
    \/ AddedToHassFresh
    \/ AddedToHassRestore
    \/ HandleCoordinatorUpdate
    \/ UpdateExtrapolation
    \/ ClockAdvanceDays
    \/ WillRemoveFromHass
    \/ WillRemoveFromHassUnarmed
    \/ DeepRefreshFire
    \/ CommandVerifyReturns
    \/ CommandVerifyRaises
    \/ CommandRefreshReturnsParked

SpecParked == InitParked /\ [][NextParked]_vars

\* ---- the module-level functions, called on their own ----

\* persisted values of each key of estimation_state: absent, of the wrong
\* type, in range, out of range
LoadBlobs ==
    { [ Blob(soc, time, charging, idle, rate, drain, factor, target)
          EXCEPT !.learned_efficiency = efficiency ] :
      soc \in {Missing, Str(None), Num(5000), Num(15000)},
      time \in {Missing, Str(70), Str(None)},
      charging \in {Missing, Bool(TRUE), Str(None)},
      idle \in {Bool(FALSE), Bool(TRUE), Str(None)},
      rate \in {Missing, Num(200), Num(9000)},
      drain \in {Null, Num(100), Num(-5)},
      factor \in {Missing, Num(1200), Num(2000)},
      efficiency \in {Missing, Num(800)},
      target \in {Missing, Num(8000), Num(0)} }
    \cup {NotADict}

\* SOC arguments of calculate_charging_rate, in 1/100 %
RateSocs == {0, 4500, 5000, 9950, 9999, 10000, 10100}

\* time-to-full values, in 1/10 minute: absent, negative, zero, below and at
\* one minute, minutes and hours
TimesToFull == {None, -10, 0, 5, 9, 10, 11, 100, 1500, 6000}

\* charging_level values: absent, AC and DC names in either case, an int 3,
\* a level naming neither charger, a name holding both "3" and "AC"
LevelNames ==
    { NoLevel, LEVEL_2, DC_FAST, <<"3">>, <<"a", "c">>,
      <<"L", "E", "V", "E", "L", "_", "1">>,
      <<"f", "a", "s", "t">>,
      <<"L", "3", "_", "A", "C">> }

\* estimation states a learner is called on: with and without a baseline
\* and its time (taken at minute 10), rates from none to the cap, factors at
\* the bounds and between, drain rates at the bounds and the default
LearnStates ==
    { [DefaultState EXCEPT !.last_actual_soc = soc,
                           !.last_actual_soc_time = tm,
                           !.charging_rate_pct_per_hour = rate,
                           !.learned_correction_factor = factor,
                           !.idle_drain_rate_pct_per_hour = drain] :
      soc \in {None, 5000}, tm \in {None, 10},
      rate \in {0, 100, 200, 3000},
      factor \in {500, 1000, 1234, 1500},
      drain \in {0, 60, 400} }

\* SOC arguments of the learners, in 1/100 %: below, at and above the
\* baseline 50, by less than, exactly and more than 0.5
LearnSocs == {4000, 4900, 4950, 4951, 5000, 5049, 5050, 5100, 6000}

\* instants of the learners' calls, in minutes: before the baseline time,
\* around 3 minutes and 1 hour after it, a day and four days after it
LearnInstants == {0, 12, 13, 69, 70, 100, 1450, 6010}

\* the two learners of the entity
Learners == { "_learn_correction_factor", "_learn_drain_rate" }

\* a call of a learner on the estimation state s
LearnerCall(learner, s, current_soc, t, was) ==
    [ op |-> learner, s |-> s, current_soc |-> current_soc, now |-> t, was |-> was ]

Calls ==
    { [op |-> "from_dict", data |-> b] : b \in LoadBlobs }
    \cup { [op |-> "calculate_charging_rate", current_soc |-> soc,
            time_to_full_minutes |-> t] : soc \in RateSocs, t \in TimesToFull }
    \cup { [op |-> "select_time_to_full", charging_level |-> level,
            time_l2 |-> l2, time_l3 |-> l3] :
           level \in LevelNames, l2 \in TimesToFull, l3 \in TimesToFull }

\* the entity is constructed and stays as it is; one call of a module-level
\* function or of a learner is about to be made
InitPure ==
    /\ state = DefaultState
    /\ vehicle = [ state_of_charge |-> 5000, charging |-> FALSE, ignition_on |-> FALSE,
                   charging_level |-> NoLevel,
                   time_to_fully_charge_l2 |-> None,
                   time_to_fully_charge_l3 |-> None ]
    /\ now = Instant(1)
    /\ phase = "constructed"
    /\ unsub_timer = FALSE
    /\ unsub_deep_refresh = FALSE
    /\ refreshes = 0
    /\ lastOp = "init"
    /\ pre = DefaultState
    /\ restored = FALSE
    /\ soc_ingested = FALSE
    /\ \/ call \in Calls
       \/ \E learner \in Learners, s \in LearnStates, soc \in LearnSocs,
             t \in LearnInstants, was \in BOOLEAN :
             call = LearnerCall(learner, s, soc, t, was)
    /\ ret = NoReturn
    /\ deep_refresh = NoDeepRefresh
    /\ unsub_calls = NoUnsubCalls

\* SocEstimationState.from_dict(data) returns
CallFromDict ==
    /\ call.op = "from_dict"
    /\ ~ret.done
    /\ ret' = [done |-> TRUE, v |-> from_dict(call.data)]
    /\ UNCHANGED <<entityVars, call, deep_refresh, unsub_calls>>

\* calculate_charging_rate(current_soc, time_to_full_minutes) returns
CallCalculateChargingRate ==
    /\ call.op = "calculate_charging_rate"
    /\ ~ret.done
    /\ ret' = [done |-> TRUE,
               v |-> calculate_charging_rate(call.current_soc, call.time_to_full_minutes)]
    /\ UNCHANGED <<entityVars, call, deep_refresh, unsub_calls>>

\* select_time_to_full(charging_level, time_l2, time_l3) returns
CallSelectTimeToFull ==
    /\ call.op = "select_time_to_full"
    /\ ~ret.done
    /\ ret' = [done |-> TRUE,
               v |-> select_time_to_full(call.charging_level, call.time_l2, call.time_l3)]
    /\ UNCHANGED <<entityVars, call, deep_refresh, unsub_calls>>

\* _learn_correction_factor(current_soc, now, was_charging) returns; v is
\* the estimation state it leaves
CallLearnCorrectionFactor ==
    /\ call.op = "_learn_correction_factor"
    /\ ~ret.done
    /\ ret' = [done |-> TRUE,
               v |-> learn_correction_factor(call.s, call.current_soc, call.now, call.was)]
    /\ UNCHANGED <<entityVars, call, deep_refresh, unsub_calls>>

\* _learn_drain_rate(current_soc, now, was_idle) returns; v is the
\* estimation state it leaves
CallLearnDrainRate ==
    /\ call.op = "_learn_drain_rate"
    /\ ~ret.done
    /\ ret' = [done |-> TRUE,
               v |-> learn_drain_rate(call.s, call.current_soc, call.now, call.was)]
    /\ UNCHANGED <<entityVars, call, deep_refresh, unsub_calls>>

NextPure ==
    \/ CallFromDict
    \/ CallCalculateChargingRate
    \/ CallSelectTimeToFull
    \/ CallLearnCorrectionFactor
    \/ CallLearnDrainRate

SpecPure == InitPure /\ [][NextPure]_vars

\* ---- claims ----

\* the fields of the EstimationState a rejected or SOC-less sample must leave
\* alone: baseline, baseline time, mode flags, charging rate, both learned
\* coefficients
SameEstimation(a, b) ==
    /\ a.last_actual_soc = b.last_actual_soc
    /\ a.last_actual_soc_time = b.last_actual_soc_time
    /\ a.is_charging = b.is_charging
    /\ a.is_idle = b.is_idle
    /\ a.charging_rate_pct_per_hour = b.charging_rate_pct_per_hour
    /\ a.learned_correction_factor = b.learned_correction_factor
    /\ a.idle_drain_rate_pct_per_hour = b.idle_drain_rate_pct_per_hour

\* C1: an ingestion that finds the stored mode charging and a sample SOC
\* below the baseline leaves baseline, baseline time, mode flags, charging
\* rate and both learned coefficients unchanged, whatever else the sample
\* carries.
C1_MonotonicRejection ==
    ( /\ lastOp \in IngestOps
      /\ vehicle.state_of_charge # None
      /\ pre.is_charging
      /\ pre.last_actual_soc # None
      /\ vehicle.state_of_charge < pre.last_actual_soc )
    => SameEstimation(state, pre)

\* baseline 50 at t0, charging; the sample 45 arrives at t0 + 10 min, now
\* reported as parked, and the baseline stays 50 at t0
C1_Witness ==
    /\ lastOp = "ingest"
    /\ pre.is_charging
    /\ pre.last_actual_soc = 5000
    /\ vehicle.state_of_charge = 4500
    /\ ~vehicle.charging
    /\ now = pre.last_actual_soc_time + 10
    /\ state.last_actual_soc = 5000
    /\ state.last_actual_soc_time = pre.last_actual_soc_time

\* C2: feeding the same sample twice in succession: the second ingestion (of
\* the same vehicle snapshot, at the same instant) leaves
\* learned_correction_factor and idle_drain_rate_pct_per_hour as the first
\* left them.
C2_Idempotence ==
    [][ (lastOp \in IngestOps /\ lastOp' = "ingest")
        => /\ state'.learned_correction_factor = state.learned_correction_factor
           /\ state'.idle_drain_rate_pct_per_hour = state.idle_drain_rate_pct_per_hour ]_vars

\* C3: the charging rate is in [0, 300] %/h, the idle drain rate in
\* [0, 0.04] %/h and the correction factor in [0.5, 1.5], in the state and in
\* every state from_dict or the dataclass produced.
InRanges(s) ==
    /\ 0 <= s.charging_rate_pct_per_hour
    /\ s.charging_rate_pct_per_hour <= 300 * RateScale
    /\ 0 <= s.idle_drain_rate_pct_per_hour
    /\ 25 * s.idle_drain_rate_pct_per_hour <= DrainScale
    /\ FactorScale <= 2 * s.learned_correction_factor
    /\ 2 * s.learned_correction_factor <= 3 * FactorScale

C3_Ranges == InRanges(state) /\ InRanges(pre)

\* an ingestion whose learner moved the correction factor and that stored a
\* charging rate at the cap of 300 %/h
C3_Witness ==
    /\ lastOp = "ingest"
    /\ state.learned_correction_factor # pre.learned_correction_factor
    /\ state.charging_rate_pct_per_hour = 300 * RateScale

\* C4: is_charging and is_idle are never both true.
C4_ModesExclusive == ~(state.is_charging /\ state.is_idle)

\* the value estimate() returns now
Estimate == native_value(state, vehicle, now)

\* C5, as claimed: without a restore, last_actual_soc is None exactly when no
\* sample carrying an SOC has been ingested, in exactly those states the
\* engine is unavailable and estimate() returns nothing; the first sample
\* carrying an SOC sets baseline and baseline time, and the baseline never
\* reverts to None.
C5_NoBaselineAsClaimed ==
    /\ ~restored =>
          /\ (state.last_actual_soc = None) <=> ~soc_ingested
          /\ available(state) <=> soc_ingested
          /\ ~soc_ingested => Estimate = None
          /\ ( /\ lastOp \in IngestOps
               /\ pre.last_actual_soc = None
               /\ vehicle.state_of_charge # None )
             => /\ state.last_actual_soc = vehicle.state_of_charge
                /\ state.last_actual_soc_time = now
          /\ pre.last_actual_soc # None => state.last_actual_soc # None

\* C5, amended: as claimed, except that without a baseline estimate() returns
\* the SOC the vehicle currently reports, and nothing only when the vehicle
\* reports none.
C5_NoBaseline ==
    /\ ~restored =>
          /\ (state.last_actual_soc = None) <=> ~soc_ingested
          /\ available(state) <=> soc_ingested
          /\ ~soc_ingested => Estimate = vehicle.state_of_charge
          /\ ( /\ lastOp \in IngestOps
               /\ pre.last_actual_soc = None
               /\ vehicle.state_of_charge # None )
             => /\ state.last_actual_soc = vehicle.state_of_charge
                /\ state.last_actual_soc_time = now
          /\ pre.last_actual_soc # None => state.last_actual_soc # None

\* the first sample carrying an SOC, reported as charging, is ingested later
\* than the construction and becomes the baseline
C5_Witness ==
    /\ ~restored
    /\ lastOp = "added"
    /\ pre.last_actual_soc = None
    /\ vehicle.state_of_charge = 4500
    /\ vehicle.charging
    /\ now > 0
    /\ state.last_actual_soc = 4500
    /\ state.last_actual_soc_time = now

\* the engine holds what the vehicle reports: the SOC as baseline, the mode
\* flags of the sample
SampleAccepted ==
    /\ state.last_actual_soc = vehicle.state_of_charge
    /\ state.is_charging = vehicle.charging
    /\ state.is_idle = (~vehicle.charging /\ ~vehicle.ignition_on)

\* C6: once every poll reports the same sample (carrying an SOC), the engine
\* accepts it after finitely many ingestions, unless the entity is removed.
C6_EventuallyAccepted ==
    []( ( /\ phase = "added"
          /\ refreshes = MaxRefreshes
          /\ vehicle.state_of_charge # None )
        => <>(SampleAccepted \/ phase = "removed") )

\* C7: ingesting a sample without an SOC leaves baseline, baseline time, mode
\* flags, charging rate and both learned coefficients as they were.
C7_AbsentSocFrame ==
    (lastOp \in IngestOps /\ vehicle.state_of_charge = None)
    => SameEstimation(state, pre)

\* a sample without SOC, reported as charging with a time to full, ingested
\* by an engine that holds a baseline in idle mode
C7_Witness ==
    /\ lastOp = "ingest"
    /\ vehicle.state_of_charge = None
    /\ vehicle.charging
    /\ vehicle.time_to_fully_charge_l2 # None
    /\ pre.is_idle
    /\ pre.last_actual_soc # None
    /\ state.is_idle

\* est (in 1/100 %) is the value n/d rounded to one decimal: a multiple of
\* 0.1 % at most 0.05 % away from it
IsRoundedToOneDecimal(est, n, d) ==
    /\ est % 10 = 0
    /\ est * d - n <= 5 * d
    /\ n - est * d <= 5 * d

\* an EstimationState with the given baseline, mode, rates and factor
StateOf(soc, time, charging, idle, rate, drain, factor) ==
    [ last_actual_soc |-> soc, last_actual_soc_time |-> time,
      is_charging |-> charging, is_idle |-> idle,
      charging_rate_pct_per_hour |-> rate,
      idle_drain_rate_pct_per_hour |-> drain,
      learned_correction_factor |-> factor, target_soc |-> FULL_SOC ]

\* idle mode with a positive drain rate, a baseline and no negative elapsed time
IdleCase ==
    /\ state.is_idle
    /\ state.idle_drain_rate_pct_per_hour > 0
    /\ state.last_actual_soc # None
    /\ state.last_actual_soc_time # None
    /\ now >= state.last_actual_soc_time

\* max(0, baseline - drain * elapsed), in 1/100 %, over DrainDen
IdleExact ==
    Max2(0, state.last_actual_soc * DrainDen
            - state.idle_drain_rate_pct_per_hour * (now - state.last_actual_soc_time))

\* baseline 80, drain 0.04 %/h, 24 h later: 79.0; and a drain below zero
\* stops at 0
IdleExamples ==
    /\ native_value(StateOf(8000, 0, FALSE, TRUE, 0, 400, 1000), vehicle, 1440) = 7900
    /\ native_value(StateOf(50, 0, FALSE, TRUE, 0, 400, 1000), vehicle, 1440) = 0

\* C8, as claimed: in idle mode with a positive drain rate estimate() is
\* max(0, baseline - drain * elapsed) rounded to one decimal, never below 0
\* and never above the baseline.
C8_IdleDrainAsClaimed ==
    IdleCase =>
       /\ IsRoundedToOneDecimal(Estimate, IdleExact, DrainDen)
       /\ Estimate >= 0
       /\ Estimate <= state.last_actual_soc
       /\ IdleExamples

\* C8, amended: ... never below 0 and never above the baseline rounded to one
\* decimal.
C8_IdleDrain ==
    IdleCase =>
       /\ IsRoundedToOneDecimal(Estimate, IdleExact, DrainDen)
       /\ Estimate >= 0
       /\ Estimate <= Round1(state.last_actual_soc, 1)
       /\ IdleExamples

\* a day after the baseline the drain of 0.04 %/h has taken a whole point off
C8_Witness ==
    /\ IdleCase
    /\ state.idle_drain_rate_pct_per_hour = 400
    /\ now - state.last_actual_soc_time >= 1440
    /\ Estimate = state.last_actual_soc - 100

\* charging mode, not idle, a positive rate, a baseline below 100 and an
\* elapsed time of 0 to 2 hours
ChargingCase ==
    /\ state.is_charging
    /\ ~state.is_idle
    /\ state.charging_rate_pct_per_hour > 0
    /\ state.last_actual_soc # None
    /\ state.last_actual_soc < FULL_SOC
    /\ state.last_actual_soc_time # None
    /\ now >= state.last_actual_soc_time
    /\ now - state.last_actual_soc_time <= 120

\* min(100, baseline + rate * factor * elapsed), in 1/100 %, over ChargeDen
ChargingExact ==
    Min2(FULL_SOC * ChargeDen,
         state.last_actual_soc * ChargeDen
         + state.charging_rate_pct_per_hour * state.learned_correction_factor
           * (now - state.last_actual_soc_time))

\* baseline 60, rate 20 %/h, factor 1.0, one hour later: 80.0
ChargingExamples ==
    native_value(StateOf(6000, 0, TRUE, FALSE, 200, 60, 1000), vehicle, 60) = 8000

\* C9, as claimed: in charging mode estimate() is min(100, baseline + rate *
\* factor * elapsed) rounded to one decimal, never above 100 and never below
\* the baseline.
C9_ChargingAsClaimed ==
    ChargingCase =>
       /\ IsRoundedToOneDecimal(Estimate, ChargingExact, ChargeDen)
       /\ Estimate <= FULL_SOC
       /\ Estimate >= state.last_actual_soc
       /\ ChargingExamples

\* C9, amended: ... never above 100 and never below the baseline rounded to
\* one decimal.
C9_Charging ==
    ChargingCase =>
       /\ IsRoundedToOneDecimal(Estimate, ChargingExact, ChargeDen)
       /\ Estimate <= FULL_SOC
       /\ Estimate >= Round1(state.last_actual_soc, 1)
       /\ ChargingExamples

\* an hour of charging at 20 %/h has added 20 points to the baseline of 50
C9_Witness ==
    /\ ChargingCase
    /\ state.last_actual_soc = 5000
    /\ state.charging_rate_pct_per_hour = 200
    /\ now - state.last_actual_soc_time = 60
    /\ Estimate = 7000

\* the clock shows an instant before the baseline time
ClockBehindBaseline ==
    /\ state.last_actual_soc # None
    /\ state.last_actual_soc_time # None
    /\ now < state.last_actual_soc_time

\* C10, as claimed: when now is earlier than last_actual_soc_time estimate()
\* returns the stored baseline, whatever the vehicle reports.
C10_ClockBackwardAsClaimed ==
    ClockBehindBaseline => Estimate = state.last_actual_soc

\* C10, amended: when now is earlier than last_actual_soc_time estimate()
\* returns, unmodified, the SOC the vehicle currently reports, and the stored
\* baseline when the vehicle reports none.
C10_ClockBackward ==
    ClockBehindBaseline =>
        Estimate = IF vehicle.state_of_charge # None
                   THEN vehicle.state_of_charge
                   ELSE state.last_actual_soc

\* the clock was set back behind the baseline of an idle engine while the
\* vehicle reports another SOC than the baseline
C10_Witness ==
    /\ ClockBehindBaseline
    /\ state.is_idle
    /\ state.idle_drain_rate_pct_per_hour > 0
    /\ vehicle.state_of_charge # None
    /\ vehicle.state_of_charge # state.last_actual_soc

\* a baseline exists and more than 2 hours have elapsed since it
StaleCase ==
    /\ state.last_actual_soc # None
    /\ state.last_actual_soc_time # None
    /\ now - state.last_actual_soc_time > STALE_THRESHOLD_HOURS

\* C11: more than 2 hours after the baseline estimate() is the baseline
\* rounded to one decimal, whatever the mode, rate and factor, unless the
\* engine is idle with a positive drain rate; then it is still
\* max(0, baseline - drain * elapsed) rounded to one decimal.
C11_StaleFreeze ==
    StaleCase =>
        IF state.is_idle /\ state.idle_drain_rate_pct_per_hour > 0
        THEN IsRoundedToOneDecimal(Estimate, IdleExact, DrainDen)
        ELSE IsRoundedToOneDecimal(Estimate, state.last_actual_soc, 1)

\* charging at a positive rate below 100 %, read more than 2 hours after the
\* baseline
C11_Witness ==
    /\ StaleCase
    /\ state.is_charging
    /\ ~state.is_idle
    /\ state.charging_rate_pct_per_hour > 0
    /\ state.last_actual_soc = 5000
    /\ Estimate = 5000

\* C12: serializing an EstimationState and loading the result gives the same
\* state field by field, for the state after every operation (the all-default
\* state of the construction among them) and for the state as restored from
\* the persisted attributes.
C12_RoundTrip ==
    /\ from_dict(to_dict(state)) = state
    /\ lastOp \in { "init", "restored" } => from_dict(to_dict(pre)) = pre

\* an ingestion has left a state with every field populated: a baseline and
\* its time, charging mode, a positive rate and a learned correction factor
C12_Witness ==
    /\ lastOp = "ingest"
    /\ state.last_actual_soc # None
    /\ state.last_actual_soc_time # None
    /\ state.is_charging
    /\ state.charging_rate_pct_per_hour > 0
    /\ state.learned_correction_factor # DEFAULT_CORRECTION_FACTOR
    /\ state # DefaultState

\* a persisted value that is a number within [lo, hi] is kept, anything else
\* gives the default
LoadedNumber(x, lo, hi, default) ==
    IF x.t = "num" /\ x.v >= lo /\ x.v <= hi THEN x.v ELSE default

\* a persisted bool is kept, anything else gives False
LoadedFlag(x) == IF x.t = "bool" THEN x.v = 1 ELSE FALSE

\* the state C13 describes for a persisted blob: every field on its own,
\* kept when well-formed, else its default
LoadedAsClaimed(data) ==
    IF ~data.isdict THEN DefaultState
    ELSE [ last_actual_soc |-> LoadedNumber(data.last_actual_soc, 0, FULL_SOC, None),
           last_actual_soc_time |->
               IF data.last_actual_soc_time.t = "str"
               THEN data.last_actual_soc_time.v ELSE None,
           is_charging |-> LoadedFlag(data.is_charging),
           is_idle |-> LoadedFlag(data.is_idle),
           charging_rate_pct_per_hour |->
               LoadedNumber(data.charging_rate_pct_per_hour, 0, MAX_CHARGING_RATE, 0),
           idle_drain_rate_pct_per_hour |->
               LoadedNumber(data.idle_drain_rate_pct_per_hour, MIN_IDLE_DRAIN_RATE,
                            MAX_IDLE_DRAIN_RATE, DEFAULT_IDLE_DRAIN_RATE),
           learned_correction_factor |->
               LoadedNumber(Get(data.learned_correction_factor,
                                Get(data.learned_efficiency, Num(DEFAULT_CORRECTION_FACTOR))),
                            MIN_CORRECTION_FACTOR, MAX_CORRECTION_FACTOR,
                            DEFAULT_CORRECTION_FACTOR),
           target_soc |-> LoadedNumber(data.target_soc, 1, FULL_SOC, FULL_SOC) ]

\* C13: from_dict returns, for any input, the state in which every malformed
\* or out-of-range field has its default and every well-formed field its
\* persisted value.
C13_LoadDefaults ==
    (call.op = "from_dict" /\ ret.done) => ret.v = LoadedAsClaimed(call.data)

\* (100 - soc) / (t / 60) in 1/10 %/h, as the fraction RateNum / RateDen
RateNum(soc, t) == (FULL_SOC - soc) * MinutesPerHour * TtfScale * RateScale
RateDen(t) == t * SocScale

\* C14: calculate_charging_rate(soc, t) is 0 when t is absent, t < 1 minute
\* or soc >= 100, and otherwise min(300, (100 - soc) / (t / 60)) (here to the
\* nearest 0.1 %/h); for soc in [0, 100] it is within [0, 300].
C14_ChargingRate ==
    (call.op = "calculate_charging_rate" /\ ret.done) =>
        LET soc == call.current_soc
            t == call.time_to_full_minutes
            r == ret.v
        IN  /\ IF t = None \/ t < TtfScale \/ soc >= FULL_SOC
               THEN r = 0
               ELSE IF RateNum(soc, t) >= MAX_CHARGING_RATE * RateDen(t)
               THEN r = MAX_CHARGING_RATE
               ELSE /\ 2 * (r * RateDen(t) - RateNum(soc, t)) <= RateDen(t)
                    /\ 2 * (RateNum(soc, t) - r * RateDen(t)) <= RateDen(t)
            /\ (soc >= 0 /\ soc <= FULL_SOC) => (r >= 0 /\ r <= MAX_CHARGING_RATE)

\* 50 % to go in 150 minutes: 20 %/h
C14_Witness ==
    /\ call.op = "calculate_charging_rate"
    /\ ret.done
    /\ call.current_soc = 5000
    /\ call.time_to_full_minutes = 1500
    /\ ret.v = 200

\* the charging levels that name a DC / level-3 / fast charger
NamesDcCharger(level) ==
    level \in { DC_FAST, <<"3">>, <<"f", "a", "s", "t">>, <<"L", "3", "_", "A", "C">> }

\* the charging levels that name an AC / level-2 charger and no DC charger
NamesAcCharger(level) == level \in { LEVEL_2, <<"a", "c">> }

\* a time-to-full reading is valid: present and above 0
ValidReading(t) == t # None /\ t > 0

\* C15: select_time_to_full returns None exactly when neither reading is
\* valid and else one of the valid readings: t_l3 for a DC level with a valid
\* t_l3, t_l2 for an AC level with a valid t_l2, and in every other case the
\* smaller of two valid readings or the one valid reading.
C15_SelectTimeToFull ==
    (call.op = "select_time_to_full" /\ ret.done) =>
        LET level == call.charging_level
            l2 == call.time_l2
            l3 == call.time_l3
            r == ret.v
        IN  /\ (r = None) <=> (~ValidReading(l2) /\ ~ValidReading(l3))
            /\ r # None => \/ (ValidReading(l2) /\ r = l2)
                           \/ (ValidReading(l3) /\ r = l3)
            /\ IF NamesDcCharger(level) /\ ValidReading(l3) THEN r = l3
               ELSE IF NamesAcCharger(level) /\ ValidReading(l2) THEN r = l2
               ELSE IF ValidReading(l2) /\ ValidReading(l3)
                    THEN (r <= l2 /\ r <= l3)
               ELSE IF ValidReading(l3) THEN r = l3
               ELSE IF ValidReading(l2) THEN r = l2
               ELSE r = None

\* an AC level with both readings valid: the level-2 reading is returned
\* although the level-3 reading is smaller
C15_Witness ==
    /\ call.op = "select_time_to_full"
    /\ ret.done
    /\ call.charging_level = LEVEL_2
    /\ call.time_l2 = 1500
    /\ call.time_l3 = 100
    /\ ret.v = 1500

\* the daily timer has just fired and dispatched the command
CommandIssued == lastOp = "deep_fire" /\ deep_refresh.pc = "command"

\* the firings of the daily timer up to now
FiringsSoFar == { t \in FiringInstants : t <= now }

CommandFailed == lastOp = "deep_failed"

\* C17 - a failure of the command dispatched by the daily deep-refresh
\* handler is caught and logged as one warning, never leaves the handler,
\* writes no field of the estimation state (the state is as it was, or as
\* the ingestion of the coordinator's refresh left it), and no command is
\* sent again before the daily timer fires anew.
C17_CommandFailure ==
    /\ [](~deep_refresh.raised)
    /\ [](CommandFailed =>
            /\ deep_refresh.pc = "idle"
            /\ \/ state = pre
               \/ /\ phase = "added"
                  /\ state = update_from_vehicle(pre, vehicle, now))
    /\ [][CommandFailed' /\ deep_refresh.pc # "idle" =>
             /\ deep_refresh'.warnings = deep_refresh.warnings + 1
             /\ deep_refresh'.commands = deep_refresh.commands]_vars
    /\ [][deep_refresh'.commands # deep_refresh.commands =>
             /\ now \in FiringInstants
             /\ deep_refresh.fired_at # now
             /\ deep_refresh'.fired_at = now
             /\ deep_refresh'.commands = deep_refresh.commands + 1]_vars

\* a failed command, logged, with the entity still added
C17_Witness ==
    /\ CommandFailed
    /\ phase = "added"
    /\ deep_refresh.warnings = 1
    /\ deep_refresh.commands = 1

\* the operations that ingest a sample: the coordinator's listener, and the
\* setup of the entity, which loads the persisted state and ingests
IngestingOps == { "ingest", "added", "restored" }

\* C18 - the estimation state is written by the ingestion of a sample (and
\* the learners it calls) only: the 1-minute tick with the estimate and the
\* attributes it publishes, the firing of the daily timer, the dispatch and
\* the failure of its command, the teardown and the moves of the clock and
\* of the vehicle leave every field as it was, in any interleaving with
\* ingestions; what a failed command finds changed is the ingestion of the
\* refresh the coordinator made.
C18_OnlyIngestionMutates ==
    /\ lastOp \notin IngestingOps \cup { "deep_failed" } => state = pre
    /\ CommandFailed /\ state # pre =>
          /\ phase = "added"
          /\ state = update_from_vehicle(pre, vehicle, now)

\* a tick that publishes a charging estimate, after an ingestion and with the
\* estimate away from the baseline
C18_Witness ==
    /\ lastOp = "tick"
    /\ soc_ingested
    /\ tick_publishes(state)
    /\ state.is_charging
    /\ Estimate # None
    /\ Estimate # state.last_actual_soc

\* C19 - after async_will_remove_from_hass the 1-minute timer and the daily
\* timer are both cancelled: each handle that was set has been called once
\* and cleared, a teardown with no timer created or a repeated teardown calls
\* nothing, and the estimation state is never written afterwards, even when
\* the deep-refresh handler was still awaiting its command at the teardown.
C19_Teardown ==
    /\ [](phase = "added" =>
            /\ unsub_timer /\ unsub_deep_refresh
            /\ unsub_calls = NoUnsubCalls)
    /\ [](phase = "removed" =>
            /\ ~unsub_timer /\ ~unsub_deep_refresh
            /\ unsub_calls.timer <= 1
            /\ unsub_calls.deep_refresh = unsub_calls.timer)
    /\ [][phase = "added" /\ phase' = "removed" =>
             unsub_calls' = [ timer |-> 1, deep_refresh |-> 1 ]]_vars
    /\ [][phase = "constructed" /\ phase' = "removed" =>
             unsub_calls' = NoUnsubCalls]_vars
    /\ [][phase = "removed" =>
             /\ phase' = "removed"
             /\ state' = state
             /\ unsub_calls' = unsub_calls]_vars

\* the command of a deep-refresh handler completes after the teardown, with
\* a refreshed snapshot whose SOC is not the baseline
C19_Witness ==
    /\ phase = "removed"
    /\ lastOp = "deep_done"
    /\ unsub_calls = [ timer |-> 1, deep_refresh |-> 1 ]
    /\ refreshes = 1
    /\ vehicle.state_of_charge # None
    /\ vehicle.state_of_charge # state.last_actual_soc

\* the mode of a pair of flags
ModeOf(charging, idle) ==
    IF charging THEN "charging" ELSE IF idle THEN "idle" ELSE "neither"

\* the mode the ingested sample reports
SampleIdle == ~vehicle.charging /\ ~vehicle.ignition_on

\* an ingestion of a sample with an SOC whose mode is not the stored one, or
\* that found the stored mode neither charging nor idle
ModeTransition ==
    /\ lastOp = "ingest"
    /\ vehicle.state_of_charge # None
    /\ \/ ModeOf(vehicle.charging, SampleIdle) # ModeOf(pre.is_charging, pre.is_idle)
       \/ ModeOf(pre.is_charging, pre.is_idle) = "neither"

\* C20 - a sample with an SOC whose mode differs from the stored mode (or
\* that finds the stored mode neither charging nor idle) is accepted whatever
\* its SOC: after the ingestion last_actual_soc is the sample's SOC and
\* is_charging and is_idle are the sample's mode.
C20_TransitionAccepted ==
    ModeTransition =>
        /\ state.last_actual_soc = vehicle.state_of_charge
        /\ state.is_charging = vehicle.charging
        /\ state.is_idle = SampleIdle

\* the estimate computed from the state the ingestion found
EstimateBefore == native_value(pre, vehicle, now)

\* an ingestion by the coordinator's listener that found the stored mode idle
\* and a sample with an SOC other than the baseline, itself idle
IdleToIdle ==
    /\ lastOp = "ingest"
    /\ pre.is_idle /\ ~pre.is_charging
    /\ vehicle.state_of_charge # None
    /\ vehicle.state_of_charge # pre.last_actual_soc
    /\ SampleIdle

\* C21 - idle-to-idle guard: the baseline becomes the sample's SOC at the
\* instant of the ingestion if and only if that SOC is at or below the
\* estimate computed from the state before the ingestion; above it the
\* baseline and its time stay, while the mode flags and the charging rate are
\* still those of the sample.
C21_IdleGuard ==
    IdleToIdle =>
        /\ vehicle.state_of_charge <= EstimateBefore =>
              /\ state.last_actual_soc = vehicle.state_of_charge
              /\ state.last_actual_soc_time = now
        /\ vehicle.state_of_charge > EstimateBefore =>
              /\ state.last_actual_soc = pre.last_actual_soc
              /\ state.last_actual_soc_time = pre.last_actual_soc_time
        /\ ~state.is_charging
        /\ state.is_idle
        /\ state.charging_rate_pct_per_hour = 0

\* an idle sample exactly at the drained estimate, below the baseline
C21_Witness ==
    /\ IdleToIdle
    /\ pre.last_actual_soc # None
    /\ vehicle.state_of_charge = EstimateBefore
    /\ vehicle.state_of_charge < pre.last_actual_soc

\* an ingestion by the coordinator's listener that found the stored mode
\* charging and a sample with an SOC, itself charging
ChargingToCharging ==
    /\ lastOp = "ingest"
    /\ pre.is_charging /\ ~pre.is_idle
    /\ vehicle.state_of_charge # None
    /\ vehicle.charging

\* C22 - charging-to-charging guard: a charging sample whose SOC is below the
\* estimate computed from the state before the ingestion, the stored mode
\* being charging, leaves baseline, baseline time, mode flags, charging rate
\* and both learned coefficients unchanged, also when its SOC is the baseline.
C22_ChargingGuard ==
    ChargingToCharging /\ vehicle.state_of_charge < EstimateBefore =>
        SameEstimation(state, pre)

\* the ingestion that has just run overwrote the baseline with its sample
BaselineOverwritten ==
    /\ vehicle.state_of_charge # None
    /\ state.last_actual_soc = vehicle.state_of_charge
    /\ state.last_actual_soc_time = now
    /\ \/ pre.last_actual_soc = None
       \/ vehicle.state_of_charge # pre.last_actual_soc

\* C23 - the learners run for accepted samples only: an ingestion changes
\* learned_correction_factor or idle_drain_rate_pct_per_hour only if it also
\* overwrites the baseline with the sample's SOC at the instant of the
\* ingestion.
C23_LearnOnlyWhenAccepted ==
    ( /\ lastOp = "ingest"
      /\ \/ state.learned_correction_factor # pre.learned_correction_factor
         \/ state.idle_drain_rate_pct_per_hour # pre.idle_drain_rate_pct_per_hour )
    => BaselineOverwritten

\* the ingestion that has just run marked its sample as stale charging data
SkippedAsStale == accept_decision(pre, vehicle, now).skip_stale_charging_data

\* what the learners give from the state the ingestion found, with the mode
\* flags of that state
FactorLearnedFromBefore ==
    learn_correction_factor(pre, vehicle.state_of_charge, now,
                            pre.is_charging).learned_correction_factor
DrainLearnedFromBefore ==
    learn_drain_rate(pre, vehicle.state_of_charge, now,
                     pre.is_idle).idle_drain_rate_pct_per_hour

\* C24 - within one ingestion the learners see the values of before it: the
\* mode flags before their refresh, the baseline and its time before they
\* are overwritten, the charging rate before it is recomputed.  So a sample
\* that leaves charging for idle can change the correction factor only (from
\* the old rate and baseline), and one that leaves idle for charging the
\* drain rate only.
C24_LearnerSeesBefore ==
    lastOp = "ingest" /\ vehicle.state_of_charge # None =>
        /\ ~SkippedAsStale =>
              /\ state.learned_correction_factor = FactorLearnedFromBefore
              /\ state.idle_drain_rate_pct_per_hour = DrainLearnedFromBefore
        /\ pre.is_charging /\ ~pre.is_idle /\ SampleIdle =>
              /\ state.idle_drain_rate_pct_per_hour = pre.idle_drain_rate_pct_per_hour
              /\ state.learned_correction_factor = FactorLearnedFromBefore
        /\ pre.is_idle /\ ~pre.is_charging /\ vehicle.charging =>
              /\ state.learned_correction_factor = pre.learned_correction_factor
              /\ state.idle_drain_rate_pct_per_hour = DrainLearnedFromBefore

\* a sample that leaves charging for idle has changed the correction factor
C24_Witness ==
    /\ lastOp = "ingest"
    /\ pre.is_charging /\ ~pre.is_idle
    /\ vehicle.state_of_charge # None
    /\ SampleIdle
    /\ state.learned_correction_factor # pre.learned_correction_factor
    /\ state.charging_rate_pct_per_hour # pre.charging_rate_pct_per_hour

\* a call of _learn_correction_factor has returned
FactorLearnerReturned == ret.done /\ call.op = "_learn_correction_factor"

\* the conditions C25 names, for the call made: the previous mode was
\* charging, a positive rate, at least 3 minutes since the baseline, an actual
\* and an expected change of at least 0.5
FactorLearnerConditions ==
    /\ call.was
    /\ call.s.charging_rate_pct_per_hour > 0
    /\ call.s.last_actual_soc # None
    /\ call.s.last_actual_soc_time # None
    /\ 20 * (call.now - call.s.last_actual_soc_time) >= MinutesPerHour
    /\ 2 * (call.current_soc - call.s.last_actual_soc) >= SocScale
    /\ 2 * call.s.charging_rate_pct_per_hour * (call.now - call.s.last_actual_soc_time)
          >= RateScale * MinutesPerHour

\* expected_change as ExpectedNum / (RateScale * MinutesPerHour) %, and
\* actual_change / expected_change as the fraction ActualNum / ExpectedNum of
\* the factor unit
ExpectedNum == call.s.charging_rate_pct_per_hour * (call.now - call.s.last_actual_soc_time)
ActualNum ==
    (call.current_soc - call.s.last_actual_soc)
    * ((RateScale * MinutesPerHour * FactorScale) \div SocScale)

\* f is 0.3 * observed + 0.7 * previous to the resolution of the factor,
\* observed being the fraction n / d of the factor unit
IsEmaFactor(f, n, d) ==
    LET exact10 == 3 * n + 7 * call.s.learned_correction_factor * d
    IN  /\ 2 * (10 * d * f - exact10) <= 13 * d
        /\ 2 * (exact10 - 10 * d * f) <= 13 * d

\* C25 - learn_correction_factor leaves the state as it is unless the
\* previous mode was charging, the rate is positive, at least 3 minutes have
\* elapsed since the baseline and the actual and the expected change are at
\* least 0.5; then the factor becomes 0.3 * clamp(actual / expected, 0.5, 1.5)
\* + 0.7 * the previous factor (to the resolution of the factor, 0.001) and
\* no other field is written.
C25_LearnCorrectionFactor ==
    FactorLearnerReturned =>
        /\ ~FactorLearnerConditions => ret.v = call.s
        /\ FactorLearnerConditions =>
              /\ ret.v = [call.s EXCEPT !.learned_correction_factor =
                                          ret.v.learned_correction_factor]
              /\ IF ActualNum \div 500 <= ExpectedNum
                 THEN IsEmaFactor(ret.v.learned_correction_factor, 500, 1)
                 ELSE IF ActualNum \div 1500 >= ExpectedNum
                 THEN IsEmaFactor(ret.v.learned_correction_factor, 1500, 1)
                 ELSE IsEmaFactor(ret.v.learned_correction_factor, ActualNum, ExpectedNum)

\* the learner has run at exactly 3 minutes, with an actual and an expected
\* change of exactly 0.5, and has moved the factor
C25_Witness ==
    /\ FactorLearnerReturned
    /\ FactorLearnerConditions
    /\ call.now - call.s.last_actual_soc_time = 3
    /\ call.current_soc - call.s.last_actual_soc = 50
    /\ call.s.charging_rate_pct_per_hour = 100
    /\ ret.v.learned_correction_factor # call.s.learned_correction_factor

\* a call of _learn_drain_rate has returned
DrainLearnerReturned == ret.done /\ call.op = "_learn_drain_rate"

\* the conditions C26 names, for the call made: the previous mode was idle,
\* at least 1 hour since the baseline, a drain of at least 0.5
DrainLearnerConditions ==
    /\ call.was
    /\ call.s.last_actual_soc # None
    /\ call.s.last_actual_soc_time # None
    /\ call.now - call.s.last_actual_soc_time >= MinutesPerHour
    /\ 2 * (call.s.last_actual_soc - call.current_soc) >= SocScale

\* actual_drain / elapsed_hours clamped to [0, 0.04], as the fraction
\* ClampedDrainNum / ElapsedMinutes of the drain unit
ElapsedMinutes == call.now - call.s.last_actual_soc_time
ClampedDrainNum ==
    Max2(0, Min2(400 * ElapsedMinutes,
                 (call.s.last_actual_soc - call.current_soc)
                 * ((DrainScale * MinutesPerHour) \div SocScale)))

\* C26 - learn_idle_drain_rate leaves the state as it is unless the previous
\* mode was idle, at least 1 hour has elapsed since the baseline and the
\* drain baseline - soc is at least 0.5; then the rate becomes
\* 0.2 * clamp(drain / elapsed_hours, 0, 0.04) + 0.8 * the previous rate (to
\* the resolution of the rate, 0.0001) and no other field is written; a gain
\* of SOC never changes the rate.
C26_LearnDrainRate ==
    DrainLearnerReturned =>
        /\ ~DrainLearnerConditions => ret.v = call.s
        /\ call.s.last_actual_soc # None /\ call.current_soc >= call.s.last_actual_soc
              => ret.v = call.s
        /\ DrainLearnerConditions =>
              LET exact10 == 2 * ClampedDrainNum
                             + 8 * call.s.idle_drain_rate_pct_per_hour * ElapsedMinutes
                  new10 == 10 * ElapsedMinutes * ret.v.idle_drain_rate_pct_per_hour
              IN  /\ ret.v = [call.s EXCEPT !.idle_drain_rate_pct_per_hour =
                                              ret.v.idle_drain_rate_pct_per_hour]
                  /\ new10 - exact10 <= 5 * ElapsedMinutes
                  /\ exact10 - new10 <= 5 * ElapsedMinutes

\* the learner has run at exactly 1 hour with a drain of exactly 0.5, which
\* is above the cap 0.04 %/h, and has moved the rate
C26_Witness ==
    /\ DrainLearnerReturned
    /\ DrainLearnerConditions
    /\ ElapsedMinutes = 60
    /\ call.s.last_actual_soc - call.current_soc = 50
    /\ call.s.idle_drain_rate_pct_per_hour = 60
    /\ ret.v.idle_drain_rate_pct_per_hour = 128

\* an ingestion of a sample with an SOC, not marked stale, that has changed
\* the stored mode into charging or into idle
ModeSwitched ==
    /\ lastOp = "ingest"
    /\ vehicle.state_of_charge # None
    /\ ~SkippedAsStale
    /\ ModeOf(state.is_charging, state.is_idle) # ModeOf(pre.is_charging, pre.is_idle)
    /\ ModeOf(state.is_charging, state.is_idle) \in { "charging", "idle" }

\* C27 - right after a non-rejected ingestion that changes the stored mode
\* into charging or into idle, the estimate at the instant of the ingestion
\* is the SOC the sample reported, rounded: gain and drain are credited only
\* for the time after the switch, also when the reported SOC is the baseline.
C27_EstimateAtSwitch ==
    ModeSwitched => Estimate = Round1(vehicle.state_of_charge, 1)

\* baseline + rate * factor * elapsed of the state the ingestion found, not
\* rounded, as a multiple of 1 / ChargeDen of the SOC unit
UnroundedBefore ==
    pre.last_actual_soc * ChargeDen
    + pre.charging_rate_pct_per_hour * pre.learned_correction_factor
      * (now - pre.last_actual_soc_time)

\* an accepted charging-to-charging sample, at most 2 hours after the
\* baseline, with the unrounded estimate below 100
ChargingContinues ==
    /\ ChargingToCharging
    /\ pre.last_actual_soc # None
    /\ pre.last_actual_soc_time # None
    /\ now - pre.last_actual_soc_time >= 0
    /\ now - pre.last_actual_soc_time <= STALE_THRESHOLD_HOURS
    /\ UnroundedBefore < FULL_SOC * ChargeDen
    /\ BaselineOverwritten

OneDecimalIngestion ==
    /\ lastOp = "ingest"
    /\ ~restored
    /\ vehicle.state_of_charge # None
    /\ vehicle.state_of_charge % 10 = 0
    /\ pre.last_actual_soc # None
    /\ pre.last_actual_soc % 10 = 0

\* C29 - the baseline is monotone within a regime: with a clock that never
\* goes back, from a default-constructed engine and SOC values of one decimal
\* at most, an ingestion that finds the stored mode charging never lowers
\* last_actual_soc, whatever the sample's mode, and one that finds the stored
\* mode idle and an idle sample never raises it.
C29_BaselineMonotone ==
    OneDecimalIngestion =>
        /\ pre.is_charging => state.last_actual_soc >= pre.last_actual_soc
        /\ pre.is_idle /\ SampleIdle => state.last_actual_soc <= pre.last_actual_soc

\* an idle sample below the baseline and at or below the estimate has
\* lowered the baseline of an idle engine
C29_Witness ==
    /\ OneDecimalIngestion
    /\ pre.is_idle
    /\ SampleIdle
    /\ state.last_actual_soc < pre.last_actual_soc
    /\ now > pre.last_actual_soc_time

\* the daily timer has just fired after the entity had issued a command on an
\* earlier day, and the baseline in force is the one that the refresh of a
\* command wrote before this firing
FiringAfterCommandBaseline ==
    /\ lastOp = "deep_fire"
    /\ deep_refresh.commands >= 1
    /\ deep_refresh.baseline_time # None
    /\ deep_refresh.baseline_time < now
    /\ state.last_actual_soc_time = deep_refresh.baseline_time

\* C30 - daily cadence for a parked vehicle: while the vehicle stays idle and
\* the baselines accepted are those of the refreshes that the entity's own
\* deep-refresh commands trigger, every firing of the daily timer after the
\* first command issues the command too; a baseline accepted shortly after
\* one day's firing does not make the next day's firing skip.
C30_DailyCadence ==
    FiringAfterCommandBaseline => deep_refresh.pc = "command"

====
